---- MODULE Spec2Model ----
(***************************************************************************)
(* Model of the long-running generation job of the chat bot:               *)
(*   - StableHorde::execute (src/src/commands/stablehorde.rs): validate,   *)
(*     submit, poll loop with debounced progress updates, fetch, deliver,  *)
(*     cleanup;                                                            *)
(*   - craiyon::generate (src/src/craiyon.rs): the bounded retry loop;     *)
(*   - the per-user fixed-window RateLimiter configured by                 *)
(*     StableHorde::rate_limit.                                            *)
(* Time is in whole seconds.  Option<T> is a sequence of length 0 or 1.    *)
(***************************************************************************)
EXTENDS Integers, Sequences, FiniteSets, TLC

VARIABLES
    \* ---- StableHorde::execute ----
    pc,                     \* position of the job task
    now,                    \* monotonic clock (Instant::now), seconds
    prompt,                 \* `arguments`: Option<[chars, lines]>
    status,                 \* Option<Status>: result of the poll of this iteration
    status_msg,             \* Option<message id>
    show_volunteer_notice,  \* bool
    last_edit,              \* Option<Instant>
    last_status,            \* Option<Status>
    results,                \* fetched generations
    chat,                   \* what the chat transport has been asked to do
    error,                  \* Option<failure> returned by execute
    updates,                \* history: the emitted progress updates
    polls,                  \* history: poll counters and the last two polled statuses
    script,                 \* Option<[todo, seen]>: the answers the remote service will give
    \* ---- aggregation of fetched results (lines 142-173 of execute) ----
    agg_pc,                 \* position of the aggregation
    agg_in,                 \* the fetched generations
    agg_out,                \* Option<aggregate>
    \* ---- craiyon::generate ----
    rpc,                    \* position of the retrying call
    retry,                  \* `retry`
    attempts,               \* history: outcome of each attempt
    delays,                 \* history: number of 2-second sleeps
    rclock,                 \* clock of the retrying call, seconds
    rresult,                \* Option<result of generate>
    \* ---- RateLimiter ----
    rl_map,                 \* user id -> Option<[count, start]>
    rl_now,                 \* clock of the limiter, seconds
    rl_log,                 \* history: sequence of [user, at, allowed]
    rl_lock,                \* user id -> Option<task holding the user's entry>
    rl_pending,             \* task -> Option<what the task is doing>
    rl_jobs                 \* history: Option<[user, outcome]> of the job that ended last

jobVars == <<pc, now, prompt, status, status_msg, show_volunteer_notice, last_edit,
             last_status, results, chat, error, updates, polls, script>>
retryVars == <<rpc, retry, attempts, delays, rclock, rresult>>
rateVars == <<rl_map, rl_now, rl_log, rl_lock, rl_pending, rl_jobs>>
aggVars == <<agg_pc, agg_in, agg_out>>
vars == <<jobVars, retryVars, rateVars, aggVars>>

None == <<>>
Some(x) == <<x>>

----------------------------------------------------------------------------
(* Bounds of the model *)

MaxTime == 26          \* the job clock stops here
MaxNetDelay == 1       \* a remote or chat call takes 0..MaxNetDelay seconds
MaxAcquires == 5       \* try_acquire calls in one behaviour
MaxResults == 3        \* generations fetched for one job

NetDelays == 0..MaxNetDelay

----------------------------------------------------------------------------
(* Program constants *)

DEBOUNCE_SECS == 12
LONG_WAIT_SECS == 30
POLL_INTERVAL_SECS == 2
MAX_PROMPT_CHARS == 1024
MAX_PROMPT_LINES == 8
WORKER_NAME_MAX == 64
ELLIPSIS == 8230
BACKSLASH == 92
MARKDOWN_CHARS ==
    {95, 42, 91, 93, 40, 41, 126, 96, 62, 35, 43, 45, 61, 124, 123, 125, 46, 33, 92}
RETRY_COUNT == 3
RETRY_DELAY_SECS == 2

----------------------------------------------------------------------------
(* Inputs *)

\* Status snapshots returned by the remote service (apis::stablehorde::Status).
MkStatus(w, p, f, q, t, d) ==
    [waiting |-> w, processing |-> p, finished |-> f,
     queue_position |-> q, wait_time |-> t, done |-> d]

Statuses ==
    { MkStatus(1, 0, 0, 1, 35, FALSE),
      MkStatus(0, 1, 0, 0, 5, FALSE),
      MkStatus(0, 1, 0, 0, 30, FALSE),
      MkStatus(0, 0, 1, 0, 0, TRUE),
      MkStatus(0, 0, 1, 0, 35, TRUE) }

\* Answers of a scripted service: every script ends with a done status.
StWait5 == MkStatus(0, 1, 0, 0, 5, FALSE)
StWait35 == MkStatus(1, 0, 0, 1, 35, FALSE)
StDone == MkStatus(0, 0, 1, 0, 0, TRUE)
StDoneLong == MkStatus(0, 0, 1, 0, 35, TRUE)
Scripts ==
    { <<StWait5, StWait35, StDone>>,
      <<StWait5, StWait35, StDoneLong>>,
      <<StDone>>,
      <<StWait35, StWait5, StDone>>,
      <<StWait5, StWait35, StWait5, StDoneLong>> }

\* Prompts: absent, at each limit, over each limit.
Prompts ==
    { None,
      Some([chars |-> 1024, lines |-> 8]),
      Some([chars |-> 1025, lines |-> 1]),
      Some([chars |-> 100, lines |-> 9]) }

\* Worker names are strings: sequences of Unicode code points.
Ascii(n) == [i \in 1..n |-> 97]
NameA == <<65>>
NameB == <<66>>
NameMd == <<97, 95, 98, 40>>                   \* "a_b("
Name64 == Ascii(64)
Name65 == Ascii(65)
NameWide == Ascii(62) \o <<233, 98, 99>>       \* 65 characters, 'e-acute' at bytes 62..63
NameWideOk == Ascii(61) \o <<233, 98, 99, 100>> \* 65 characters, 'e-acute' at bytes 61..62

\* Fetched generations: worker name and whether the payload decodes
\* (base64::decode and image::load_from_memory_with_format both Ok).
Gen(w, ok) == [worker_name |-> w, decodes |-> ok]
JobResults ==
    { <<>>,
      <<Gen(NameA, TRUE)>>,
      <<Gen(NameB, FALSE), Gen(NameA, TRUE)>>,
      <<Gen(NameA, TRUE), Gen(NameB, FALSE), Gen(NameA, TRUE)>> }

\* Inputs of the aggregation on its own
AggNames == {NameA, NameB, NameMd, Name64, Name65, NameWide, NameWideOk}
AggGens ==
    {Gen(n, TRUE) : n \in AggNames} \cup {Gen(NameA, FALSE), Gen(NameB, FALSE)}
AggInputs ==
    UNION {[1..n -> AggGens] : n \in 0..MaxResults}

----------------------------------------------------------------------------
(* Pure helpers of the job *)

check_prompt_lines_only(p) ==
    IF p.lines > MAX_PROMPT_LINES THEN Some("this prompt has too many lines (>8).")
    ELSE None
check_prompt(p) ==
    IF p.chars > MAX_PROMPT_CHARS THEN Some("this prompt is too long (>1024).")
    ELSE IF p.lines > MAX_PROMPT_LINES THEN Some("this prompt has too many lines (>8).")
    ELSE None

format_duration(duration) ==
    LET hours == (duration \div 3600) % 60
        minutes == (duration \div 60) % 60
        seconds == duration % 60
    IN  IF hours > 0 THEN <<hours, "h", minutes, "m">>
        ELSE IF minutes > 0 THEN <<minutes, "m", seconds, "s">>
        ELSE <<seconds, "s">>

\* numbers of '=', '-' and ' ' between the brackets
progress_bar(waiting, processing, finished) ==
    [eq |-> 5 * finished, dash |-> 5 * processing, blank |-> 5 * waiting]

format_status(st, volunteer_notice) ==
    [queue_info |-> IF st.queue_position > 0 THEN Some(st.queue_position) ELSE None,
     bar |-> progress_bar(st.waiting, st.processing, st.finished),
     eta |-> format_duration(st.wait_time),
     notice |-> volunteer_notice]

\* `if status.done { break; }`
LoopExits_never(st) == FALSE
LoopExits(st) == st.done

\* `if status.wait_time >= 30 { show_volunteer_notice = true; }`
NoticeAfter_unsticky(flag, st) == st.wait_time >= LONG_WAIT_SECS
NoticeAfter(flag, st) == flag \/ st.wait_time >= LONG_WAIT_SECS

\* `last_status.as_ref() != Some(&status)`
StatusChanged_always(last, st) == TRUE
StatusChanged(last, st) == last # Some(st)

\* `last_edit.map_or(true, |last_edit| last_edit.elapsed() >= Duration::from_secs(12))`
DebounceElapsed_short(last, t) == last = None \/ t - last[1] >= POLL_INTERVAL_SECS
DebounceElapsed_never(last, t) == last = None
DebounceElapsed(last, t) == last = None \/ t - last[1] >= DEBOUNCE_SECS

\* `match status_msg { None => reply, Some(status_msg) => edit }`
IsFirstUpdate_always(msg) == TRUE
IsFirstUpdate(msg) == msg = None

----------------------------------------------------------------------------
(* Strings and the aggregation of results *)

Ok(x) == [ok |-> TRUE, val |-> x]
Panicked == [ok |-> FALSE, val |-> <<>>]

\* bytes of one code point in UTF-8
Utf8Len(c) == IF c < 128 THEN 1 ELSE IF c < 2048 THEN 2 ELSE IF c < 65536 THEN 3 ELSE 4

\* String::truncate(new_len): new_len counts bytes; panics when new_len falls
\* inside a character.  Walks the characters: `bytes` is the length of the
\* first i-1 of them.
RECURSIVE TruncateFrom(_, _, _, _)
TruncateFrom(str, i, bytes, new_len) ==
    IF bytes = new_len THEN Ok(SubSeq(str, 1, i - 1))
    ELSE IF bytes > new_len THEN Panicked
    ELSE IF i > Len(str) THEN Ok(str)
    ELSE TruncateFrom(str, i + 1, bytes + Utf8Len(str[i]), new_len)
StringTruncate(str, new_len) == TruncateFrom(str, 1, 0, new_len)

\* TruncateWithEllipsis for String
truncate_with_ellipsis(str, max_len) ==
    IF Len(str) > max_len
      THEN LET cut == StringTruncate(str, max_len - 1)
           IN  IF cut.ok THEN Ok(Append(cut.val, ELLIPSIS)) ELSE Panicked
      ELSE Ok(str)

\* EscapeChar / EscapeMarkdown: a backslash before every markdown character
RECURSIVE escape_markdown(_)
escape_markdown(str) ==
    IF str = <<>> THEN <<>>
    ELSE (IF Head(str) \in MARKDOWN_CHARS THEN <<BACKSLASH, Head(str)>> ELSE <<Head(str)>>)
         \o escape_markdown(Tail(str))

\* decimal digits of a count, as `{v}` formats it
RECURSIVE Digits(_)
Digits(v) == IF v < 10 THEN <<48 + v>> ELSE Digits(v \div 10) \o <<48 + (v % 10)>>

\* lines 164-169: one worker of the caption, before escaping
CountSuffix(v) == IF v > 1 THEN <<32, 40>> \o Digits(v) \o <<41>> ELSE <<>>

WorkerEntry(k, v) ==
    LET t == truncate_with_ellipsis(k, WORKER_NAME_MAX)
    IN  IF t.ok THEN Ok(t.val \o CountSuffix(v)) ELSE Panicked

\* `.join(", ")`
RECURSIVE Join(_)
Join(strs) ==
    IF strs = <<>> THEN <<>>
    ELSE IF Len(strs) = 1 THEN strs[1]
    ELSE strs[1] \o <<44, 32>> \o Join(Tail(strs))

\* lines 142-146: `workers[&generation.worker_name] += 1` for every generation
Tally_decoded(gens) ==
    LET names == {gens[i].worker_name : i \in {j \in 1..Len(gens) : gens[j].decodes}}
    IN  [w \in names |->
            Cardinality({i \in 1..Len(gens) : gens[i].worker_name = w /\ gens[i].decodes})]
Tally(gens) ==
    LET names == {gens[i].worker_name : i \in 1..Len(gens)}
    IN  [w \in names |-> Cardinality({i \in 1..Len(gens) : gens[i].worker_name = w})]

\* Counter::most_common: sorted by descending count; the counter is a HashMap
\* and the comparison calls equal counts equal, so their order is any order
MostCommonOrders_unsorted(tally) ==
    LET n == Cardinality(DOMAIN tally)
    IN  {o \in [1..n -> DOMAIN tally] : \A i, j \in 1..n : i # j => o[i] # o[j]}
MostCommonOrders(tally) ==
    LET n == Cardinality(DOMAIN tally)
    IN  {o \in [1..n -> DOMAIN tally] :
            /\ \A i, j \in 1..n : i # j => o[i] # o[j]
            /\ \A i, j \in 1..n : i < j => tally[o[i]] >= tally[o[j]]}

\* lines 147-150: the positions of the generations whose payload decodes, in order
RECURSIVE DecodedFrom(_, _)
DecodedFrom(gens, i) ==
    IF i > Len(gens) THEN <<>>
    ELSE (IF gens[i].decodes THEN <<i>> ELSE <<>>) \o DecodedFrom(gens, i + 1)
DecodedImages(gens) == DecodedFrom(gens, 1)

\* utils::image_collage(images, image_size, image_count_x, gap)
image_collage_nonempty(images, image_size, image_count_x, gap) ==
    IF images = <<>> THEN Panicked
    ELSE Ok([columns |-> image_count_x,
             rows |-> (Len(images) + image_count_x - 1) \div image_count_x,
             cell |-> image_size, gap |-> gap,
             tiles |-> [k \in 1..Len(images) |->
                          [image |-> images[k],
                           row |-> (k - 1) \div image_count_x,
                           col |-> (k - 1) % image_count_x]]])
image_collage(images, image_size, image_count_x, gap) ==
    Ok([columns |-> image_count_x,
        rows |-> (Len(images) + image_count_x - 1) \div image_count_x,
        cell |-> image_size, gap |-> gap,
        tiles |-> [k \in 1..Len(images) |->
                     [image |-> images[k],
                      row |-> (k - 1) \div image_count_x,
                      col |-> (k - 1) % image_count_x]]])

\* lines 142-173 for one order returned by most_common
Aggregated(gens, order) ==
    LET workers == Tally(gens)
        images == DecodedImages(gens)
        image == image_collage(images, 512, 2, 8)
        entries == [i \in 1..Len(order) |-> WorkerEntry(order[i], workers[order[i]])]
    IN  IF ~image.ok \/ \E i \in 1..Len(order) : ~entries[i].ok
          THEN Panicked
          ELSE LET escaped == [i \in 1..Len(order) |-> escape_markdown(entries[i].val)]
               IN  Ok([workers |-> workers,
                       order |-> order,
                       image |-> image.val,
                       entries |-> escaped,
                       attribution |-> Join(escaped)])

----------------------------------------------------------------------------
(* StableHorde::execute *)

NoChat == [progress_created |-> 0, progress_ids |-> {}, edits |-> 0,
           final_sent |-> FALSE, final_delivered |-> FALSE, final |-> None,
           delete_issued |-> None, deleted |-> {},
           submits |-> 0, fetches |-> 0]

NoPolls == [done_seen |-> FALSE, long_seen |-> FALSE,
            after_done |-> 0, last2 |-> <<>>]

JobStart ==
    /\ pc = "start"
    /\ now = 0
    /\ prompt \in Prompts
    /\ status = None
    /\ status_msg = None
    /\ show_volunteer_notice = FALSE
    /\ last_edit = None
    /\ last_status = None
    /\ results = <<>>
    /\ chat = NoChat
    /\ error = None
    /\ updates = <<>>
    /\ polls = NoPolls

\* a job against a service that may answer anything
JobInit ==
    /\ JobStart
    /\ script = None

\* a job against a service whose answers are fixed in advance
JobScripted ==
    /\ JobStart
    /\ script \in {Some([todo |-> sc, seen |-> <<>>]) : sc \in Scripts}

JobIdle ==
    /\ pc = "idle"
    /\ now = 0
    /\ prompt = None
    /\ status = None
    /\ status_msg = None
    /\ show_volunteer_notice = FALSE
    /\ last_edit = None
    /\ last_status = None
    /\ results = <<>>
    /\ chat = NoChat
    /\ error = None
    /\ updates = <<>>
    /\ polls = NoPolls
    /\ script = None

Fail(stage) ==
    /\ pc' = "failed"
    /\ error' = Some(stage)

\* lines 89-94: the argument is required and must pass check_prompt
Validate ==
    /\ pc = "start"
    /\ IF prompt = None
         THEN Fail("MissingArgument")
         ELSE IF check_prompt(prompt[1]) # None
                THEN Fail(check_prompt(prompt[1])[1])
                ELSE pc' = "submit" /\ UNCHANGED error
    /\ UNCHANGED <<now, prompt, status, status_msg, show_volunteer_notice, last_edit,
                   last_status, results, chat, updates, polls>>
    /\ UNCHANGED <<script, retryVars, rateVars, aggVars>>

\* lines 96-105: stablehorde::generate(...).await??, then the loop's locals
Submit ==
    /\ pc = "submit"
    /\ \E ok \in BOOLEAN :
         /\ chat' = [chat EXCEPT !.submits = @ + 1]
         /\ IF ok THEN pc' = "poll" /\ UNCHANGED error
                  ELSE Fail("submit")
    /\ now' = 0    \* `start = Instant::now()`: the clock counts from here
    /\ status_msg' = None
    /\ show_volunteer_notice' = FALSE
    /\ last_edit' = None
    /\ last_status' = None
    /\ UNCHANGED <<prompt, status, results, updates, polls>>
    /\ UNCHANGED <<script, retryVars, rateVars, aggVars>>

\* the clock of a job against a free-running service stops at MaxTime; a
\* scripted service ends the job by itself
TimeOk(t) == script # None \/ t <= MaxTime

\* what the remote service may answer to the next poll
PollAnswers ==
    IF script = None THEN Statuses
    ELSE IF script[1].todo = <<>> THEN {}
    ELSE {Head(script[1].todo)}

\* seconds a poll may take; a scripted service may also answer so slowly that
\* the debounce window passes
PollDelays ==
    IF script = None THEN NetDelays ELSE NetDelays \cup {DEBOUNCE_SECS}

\* history of a scripted service: the answers given and when
ScriptAfter(st, t) ==
    IF script = None THEN None
    ELSE Some([todo |-> Tail(script[1].todo),
               seen |-> Append(script[1].seen, [status |-> st, at |-> t])])

\* history of the polls: counters and the last two polled statuses
NotePoll(st, emits) ==
    [done_seen |-> polls.done_seen \/ st.done,
     long_seen |-> polls.long_seen \/ (~st.done /\ st.wait_time >= 30),
     after_done |-> polls.after_done + (IF polls.done_seen THEN 1 ELSE 0),
     last2 |-> LET e == [status |-> st, emitted |-> FALSE, emits |-> emits]
               IN  IF polls.last2 = <<>> THEN <<e>>
                   ELSE <<polls.last2[Len(polls.last2)], e>>]

\* lines 107-121: one poll and the decision of this iteration
Poll ==
    /\ pc = "poll"
    /\ \E d \in PollDelays :
         /\ TimeOk(now + d)
         /\ now' = now + d
         /\ \/ /\ Fail("poll")
               /\ UNCHANGED <<status, show_volunteer_notice, polls, script>>
            \/ \E st \in PollAnswers :
                 /\ status' = Some(st)
                 /\ script' = ScriptAfter(st, now')
                 /\ UNCHANGED error
                 /\ IF LoopExits(st)
                      THEN /\ pc' = "fetch"
                           /\ polls' = NotePoll(st, FALSE)
                           /\ UNCHANGED show_volunteer_notice
                      ELSE /\ show_volunteer_notice' = NoticeAfter(show_volunteer_notice, st)
                           /\ LET emits == /\ StatusChanged(last_status, st)
                                           /\ DebounceElapsed(last_edit, now')
                              IN  /\ pc' = IF emits THEN "emit" ELSE "sleep"
                                  /\ polls' = NotePoll(st, emits)
    /\ UNCHANGED <<prompt, status_msg, last_edit, last_status, results, chat, updates>>
    /\ UNCHANGED <<retryVars, rateVars, aggVars>>

NextMessageId == chat.progress_created + 1

\* line 122: `format_status(&status, ...)` shows the status of this iteration
ShownStatus_stale == IF last_status = None THEN status[1] ELSE last_status[1]
ShownStatus == status[1]

\* line 133: `last_status = Some(status)`
RecordedStatus_keep == last_status
RecordedStatus == status

Update(kind, target, text, d) ==
    [kind |-> kind, target |-> target, status |-> status[1], text |-> text,
     issued |-> now, recorded |-> now + d, long_seen |-> polls.long_seen]

MarkEmitted ==
    [polls EXCEPT !.last2[Len(polls.last2)].emitted = TRUE]

\* lines 122-133: send the first progress message or edit the existing one
Emit ==
    /\ pc = "emit"
    /\ \E d \in NetDelays :
         /\ TimeOk(now + d)
         /\ now' = now + d
         /\ LET text == format_status(ShownStatus, show_volunteer_notice)
            IN  IF IsFirstUpdate(status_msg)
                  THEN \/ \* reply_markdown fails
                          /\ Fail("reply")
                          /\ UNCHANGED <<status_msg, last_edit, last_status, chat,
                                         updates, polls>>
                       \/ \* the message is sent, wait_for_message fails
                          /\ Fail("wait_for_message")
                          /\ chat' = [chat EXCEPT !.progress_created = @ + 1,
                                                  !.progress_ids = @ \cup {NextMessageId}]
                          /\ UNCHANGED <<status_msg, last_edit, last_status,
                                         updates, polls>>
                       \/ /\ chat' = [chat EXCEPT !.progress_created = @ + 1,
                                                  !.progress_ids = @ \cup {NextMessageId}]
                          /\ status_msg' = Some(NextMessageId)
                          /\ updates' = Append(updates,
                                               Update("send", NextMessageId, text, d))
                          /\ last_edit' = Some(now')
                          /\ last_status' = RecordedStatus
                          /\ polls' = MarkEmitted
                          /\ pc' = "sleep"
                          /\ UNCHANGED error
                  ELSE \/ \* edit_message_markdown fails
                          /\ Fail("edit")
                          /\ UNCHANGED <<status_msg, last_edit, last_status, chat,
                                         updates, polls>>
                       \/ /\ chat' = [chat EXCEPT !.edits = @ + 1]
                          /\ status_msg' = status_msg
                          /\ updates' = Append(updates,
                                               Update("edit", status_msg[1], text, d))
                          /\ last_edit' = Some(now')
                          /\ last_status' = RecordedStatus
                          /\ polls' = MarkEmitted
                          /\ pc' = "sleep"
                          /\ UNCHANGED error
    /\ UNCHANGED <<prompt, status, show_volunteer_notice, results>>
    /\ UNCHANGED <<script, retryVars, rateVars, aggVars>>

\* line 137: tokio::time::sleep(Duration::from_secs(2))
Sleep ==
    /\ pc = "sleep"
    /\ TimeOk(now + POLL_INTERVAL_SECS)
    /\ now' = now + POLL_INTERVAL_SECS
    /\ pc' = "poll"
    /\ UNCHANGED <<prompt, status, status_msg, show_volunteer_notice, last_edit,
                   last_status, results, chat, error, updates, polls>>
    /\ UNCHANGED <<script, retryVars, rateVars, aggVars>>

\* lines 140-141: stablehorde::results(...).await??
Fetch ==
    /\ pc = "fetch"
    /\ chat' = [chat EXCEPT !.fetches = @ + 1]
    /\ \/ /\ Fail("fetch")
          /\ UNCHANGED results
       \/ /\ results' \in JobResults
          /\ pc' = "deliver"
          /\ UNCHANGED error
    /\ UNCHANGED <<now, prompt, status, status_msg, show_volunteer_notice, last_edit,
                   last_status, updates, polls>>
    /\ UNCHANGED <<script, retryVars, rateVars, aggVars>>

\* lines 142-204: build the collage and the caption, send the photo, wait for it
Deliver ==
    /\ pc = "deliver"
    /\ \E order \in MostCommonOrders(Tally(results)) :
         LET agg == Aggregated(results, order)
         IN  IF ~agg.ok
               THEN \* the collage or the caption panics
                    /\ pc' = "panicked"
                    /\ UNCHANGED <<chat, error>>
               ELSE \/ \* an `.unwrap()` on the temp file, the PNG or the caption panics
                       /\ pc' = "panicked"
                       /\ UNCHANGED <<chat, error>>
                    \/ \* reply_custom fails
                       /\ Fail("reply_custom")
                       /\ UNCHANGED chat
                    \/ \* the photo is sent, wait_for_message fails
                       /\ Fail("wait_for_final")
                       /\ chat' = [chat EXCEPT !.final_sent = TRUE,
                                               !.final = Some(agg.val)]
                    \/ /\ chat' = [chat EXCEPT !.final_sent = TRUE,
                                               !.final_delivered = TRUE,
                                               !.final = Some(agg.val)]
                       /\ pc' = "cleanup"
                       /\ UNCHANGED error
    /\ UNCHANGED <<now, prompt, status, status_msg, show_volunteer_notice, last_edit,
                   last_status, results, updates, polls>>
    /\ UNCHANGED <<script, retryVars, rateVars, aggVars>>

\* lines 206-210: delete the progress message if there is one; the result of the
\* delete is dropped (`.ok()`)
Cleanup_nodelete ==
    /\ pc = "cleanup"
    /\ pc' = "done"
    /\ UNCHANGED <<now, prompt, status, status_msg, show_volunteer_notice, last_edit,
                   last_status, results, chat, error, updates, polls>>
    /\ UNCHANGED <<script, retryVars, rateVars, aggVars>>
Cleanup ==
    /\ pc = "cleanup"
    /\ IF status_msg # None
         THEN \E ok \in BOOLEAN :
                chat' = [chat EXCEPT !.delete_issued = status_msg,
                                     !.deleted = IF ok THEN @ \cup {status_msg[1]} ELSE @]
         ELSE UNCHANGED chat
    /\ pc' = "done"
    /\ UNCHANGED <<now, prompt, status, status_msg, show_volunteer_notice, last_edit,
                   last_status, results, error, updates, polls>>
    /\ UNCHANGED <<script, retryVars, rateVars, aggVars>>

----------------------------------------------------------------------------
(* craiyon::generate: the retrying call *)

\* HTTP status codes of a failed attempt, and the seconds one attempt takes
ErrorCodes == {429, 500}
AttemptSecs == {1, 2}

RetryIdle ==
    /\ rpc = "idle"
    /\ retry = 0
    /\ attempts = <<>>
    /\ delays = 0
    /\ rclock = 0
    /\ rresult = None

\* line 29: `let mut retry = 0;`
RetryInit ==
    /\ rpc = "attempt"
    /\ retry = 0
    /\ attempts = <<>>
    /\ delays = 0
    /\ rclock = 0
    /\ rresult = None

\* line 50: `if retry <= RETRY_COUNT`
ShouldRetry_lt(r) == r < RETRY_COUNT
ShouldRetry(r) == r <= RETRY_COUNT

\* line 31: `let start = Instant::now();` is taken anew in every pass of the loop
AttemptStart_call == IF attempts = <<>> THEN rclock ELSE attempts[1].at
AttemptStart == rclock

Attempted(outcome, code, d) ==
    [outcome |-> outcome, code |-> code, at |-> rclock, took |-> d]

Return(r) ==
    /\ rpc' = "returned"
    /\ rresult' = Some(r)

\* lines 31-58 and 61-67: one pass of the loop body, up to the sleep or the return
Attempt ==
    /\ rpc = "attempt"
    /\ retry' = retry + 1
    /\ \E d \in AttemptSecs :
         /\ rclock' = rclock + d
         /\ \/ \* `.send().await?`: the request is not answered
               /\ attempts' = Append(attempts, Attempted("transport_error", 0, d))
               /\ Return([ok |-> FALSE, err |-> [kind |-> "transport", code |-> 0,
                                                attempt |-> retry']])
            \/ \* `.error_for_status()` is Err
               \E c \in ErrorCodes :
                 /\ attempts' = Append(attempts, Attempted("http_error", c, d))
                 /\ IF ShouldRetry(retry')
                      THEN rpc' = "delay" /\ UNCHANGED rresult
                      ELSE Return([ok |-> FALSE, err |-> [kind |-> "status", code |-> c,
                                                         attempt |-> retry']])
            \/ \* success status, the body is not the expected JSON
               /\ attempts' = Append(attempts, Attempted("bad_json", 200, d))
               /\ Return([ok |-> FALSE, err |-> [kind |-> "decode", code |-> 200,
                                                attempt |-> retry']])
            \/ \* success status, an image is not valid base64: `.unwrap()` panics
               /\ attempts' = Append(attempts, Attempted("bad_base64", 200, d))
               /\ rpc' = "panicked"
               /\ UNCHANGED rresult
            \/ \* success
               /\ attempts' = Append(attempts, Attempted("ok", 200, d))
               /\ Return([ok |-> TRUE, duration |-> rclock' - AttemptStart, attempt |-> retry'])
    /\ UNCHANGED delays
    /\ UNCHANGED <<jobVars, rateVars, aggVars>>

\* line 51: tokio::time::sleep(Duration::from_secs(2)), then `continue`
Delay ==
    /\ rpc = "delay"
    /\ rclock' = rclock + RETRY_DELAY_SECS
    /\ delays' = delays + 1
    /\ rpc' = "attempt"
    /\ UNCHANGED <<retry, attempts, rresult>>
    /\ UNCHANGED <<jobVars, rateVars, aggVars>>

----------------------------------------------------------------------------
(* RateLimiter: fixed window per user id *)

Users == {1, 2}

\* concurrently running command tasks, and the instants of their steps
Tasks == {1, 2}
ConcTimes == {0, 299, 300}

\* instants at which the limiter is called
RateTimes == {0, 1, 299, 300, 301, 600}

\* StableHorde::rate_limit: RateLimiter::new(3, 300)
rate_limit_loose == [limit |-> 4, interval |-> 300]
rate_limit == [limit |-> 3, interval |-> 300]

RateIdle ==
    /\ rl_map = [u \in Users |-> None]
    /\ rl_now = 0
    /\ rl_log = <<>>
    /\ rl_lock = [u \in Users |-> None]
    /\ rl_pending = [p \in Tasks |-> None]
    /\ rl_jobs = None

\* the entry of user u after an acquire at instant t
AcquireEntry(entry, t) ==
    IF entry = None \/ t - entry[1].start >= rate_limit.interval
      THEN [count |-> 1, start |-> t]
      ELSE [count |-> entry[1].count + 1, start |-> entry[1].start]

AcquireAllowed(entry, t) ==
    AcquireEntry(entry, t).count <= rate_limit.limit

try_acquire(u) ==
    /\ Len(rl_log) < MaxAcquires
    /\ rl_map' = [rl_map EXCEPT ![u] = Some(AcquireEntry(rl_map[u], rl_now))]
    /\ rl_log' = Append(rl_log, [user |-> u, at |-> rl_now,
                                 allowed |-> AcquireAllowed(rl_map[u], rl_now)])
    /\ UNCHANGED <<rl_now, rl_lock, rl_pending, rl_jobs>>
    /\ UNCHANGED <<jobVars, retryVars, aggVars>>

Acquire == \E u \in Users : try_acquire(u)

\* time passes between two calls
RateTick ==
    /\ \E t \in RateTimes : t > rl_now /\ rl_now' = t
    /\ UNCHANGED <<rl_map, rl_log, rl_lock, rl_pending, rl_jobs>>
    /\ UNCHANGED <<jobVars, retryVars, aggVars>>

----------------------------------------------------------------------------
(* RateLimiter shared by concurrently running command tasks *)

\* a task takes the entry of user u (per-key mutual exclusion) and reads it
AcquireBegin(p, u) ==
    /\ rl_pending[p] = None
    /\ rl_lock[u] = None
    /\ Len(rl_log) + Cardinality({q \in Tasks : rl_pending[q] # None
                                                 /\ rl_pending[q][1].phase = "acquiring"})
          < MaxAcquires
    /\ rl_lock' = [rl_lock EXCEPT ![u] = Some(p)]
    /\ rl_pending' = [rl_pending EXCEPT ![p] =
                         Some([phase |-> "acquiring", user |-> u, at |-> rl_now,
                               entry |-> rl_map[u]])]
    /\ UNCHANGED <<rl_map, rl_now, rl_log, rl_jobs>>
    /\ UNCHANGED <<jobVars, retryVars, aggVars>>

\* the task writes the entry back, gets its decision and releases the entry
AcquireEnd(p) ==
    /\ rl_pending[p] # None
    /\ rl_pending[p][1].phase = "acquiring"
    /\ LET req == rl_pending[p][1]
           allowed == AcquireAllowed(req.entry, req.at)
       IN  /\ rl_map' = [rl_map EXCEPT ![req.user] = Some(AcquireEntry(req.entry, req.at))]
           /\ rl_log' = Append(rl_log, [user |-> req.user, at |-> req.at,
                                        allowed |-> allowed])
           /\ rl_lock' = [rl_lock EXCEPT ![req.user] = None]
           /\ rl_pending' = [rl_pending EXCEPT ![p] =
                                IF allowed
                                  THEN Some([phase |-> "job", user |-> req.user,
                                             at |-> 0, entry |-> None])
                                  ELSE None]
    /\ UNCHANGED <<rl_now, rl_jobs>>
    /\ UNCHANGED <<jobVars, retryVars, aggVars>>

\* StableHorde::execute has no access to the limiter: whatever the job's
\* outcome, the limiter's map is what it was
MapAfterJob_refund(u, outcome) ==
    IF outcome = "failed" /\ rl_map[u] # None /\ rl_map[u][1].count > 0
      THEN [rl_map EXCEPT ![u] = Some([count |-> rl_map[u][1].count - 1,
                                        start |-> rl_map[u][1].start])]
      ELSE rl_map
MapAfterJob(u, outcome) == rl_map

\* the admitted job of task p returns Ok or Err
JobEnds(p) ==
    /\ rl_pending[p] # None
    /\ rl_pending[p][1].phase = "job"
    /\ \E outcome \in {"done", "failed"} :
         /\ rl_jobs' = Some([user |-> rl_pending[p][1].user, outcome |-> outcome])
         /\ rl_map' = MapAfterJob(rl_pending[p][1].user, outcome)
    /\ rl_pending' = [rl_pending EXCEPT ![p] = None]
    /\ UNCHANGED <<rl_now, rl_log, rl_lock>>
    /\ UNCHANGED <<jobVars, retryVars, aggVars>>

\* time passes between the steps of the tasks
ConcTick ==
    /\ \E t \in ConcTimes : t > rl_now /\ rl_now' = t
    /\ UNCHANGED <<rl_map, rl_log, rl_lock, rl_pending, rl_jobs>>
    /\ UNCHANGED <<jobVars, retryVars, aggVars>>

AcquireBegins == \E p \in Tasks, u \in Users : AcquireBegin(p, u)
AcquireEnds == \E p \in Tasks : AcquireEnd(p)
JobsEnd == \E p \in Tasks : JobEnds(p)

----------------------------------------------------------------------------
(* Aggregation of the fetched results on its own *)

AggIdle ==
    /\ agg_pc = "idle"
    /\ agg_in = <<>>
    /\ agg_out = None

\* the generations as stablehorde::results returned them (line 141)
AggInit ==
    /\ agg_pc = "fetched"
    /\ agg_in \in AggInputs
    /\ agg_out = None

\* lines 142-173: tally, decode, collage, caption
Aggregate ==
    /\ agg_pc = "fetched"
    /\ \E order \in MostCommonOrders(Tally(agg_in)) :
         LET agg == Aggregated(agg_in, order)
         IN  IF agg.ok
               THEN agg_pc' = "done" /\ agg_out' = Some(agg.val)
               ELSE agg_pc' = "panicked" /\ UNCHANGED agg_out
    /\ UNCHANGED agg_in
    /\ UNCHANGED <<jobVars, retryVars, rateVars>>

----------------------------------------------------------------------------
(* Specifications *)

\* one image-generation job
Init == JobInit /\ RetryIdle /\ RateIdle /\ AggIdle
Next ==
    \/ Validate
    \/ Submit
    \/ Poll
    \/ Emit
    \/ Sleep
    \/ Fetch
    \/ Deliver
    \/ Cleanup
Spec == Init /\ [][Next]_vars

\* one retrying call
RetrySpecInit == JobIdle /\ RetryInit /\ RateIdle /\ AggIdle
RetryNext ==
    \/ Attempt
    \/ Delay
RetrySpec == RetrySpecInit /\ [][RetryNext]_vars

\* the rate limiter under a stream of acquires
RateSpecInit == JobIdle /\ RetryIdle /\ RateIdle /\ AggIdle
RateNext ==
    \/ Acquire
    \/ RateTick
RateSpec == RateSpecInit /\ [][RateNext]_vars

\* the aggregation over all small result sequences
AggSpecInit == JobIdle /\ RetryIdle /\ RateIdle /\ AggInit
AggNext == Aggregate
AggSpec == AggSpecInit /\ [][AggNext]_vars

\* the rate limiter under concurrent tasks
ConcNext ==
    \/ AcquireBegins
    \/ AcquireEnds
    \/ JobsEnd
    \/ ConcTick
ConcSpec == RateSpecInit /\ [][ConcNext]_vars

\* one job against a service that answers by a script
ScriptInit == JobScripted /\ RetryIdle /\ RateIdle /\ AggIdle
ScriptSpec == ScriptInit /\ [][Next]_vars

\* the same job under a runtime that keeps running the task: every await of
\* execute returns, so the task always takes its next step
LiveSpec == ScriptInit /\ [][Next]_vars /\ WF_vars(Next)

----------------------------------------------------------------------------
(* Properties of the poll loop (Spec) *)

\* C1: no emitted progress update carries the status of the previously emitted
\* update, and two consecutive polls that returned equal statuses never both
\* produce an emitted update.
C1_NoRepeatedStatus ==
    /\ \A i \in 2..Len(updates) : updates[i].status # updates[i - 1].status
    /\ (Len(polls.last2) = 2 /\ polls.last2[1].status = polls.last2[2].status)
          => ~(polls.last2[1].emitted /\ polls.last2[2].emitted)

\* two updates were emitted, and a poll that returned the status shown last was
\* suppressed although the debounce window had elapsed
C1_Witness ==
    /\ Len(updates) >= 2
    /\ pc = "sleep"
    /\ status = Some(updates[Len(updates)].status)
    /\ now - updates[Len(updates)].recorded >= 12
    /\ Len(polls.last2) = 2
    /\ ~polls.last2[2].emitted

\* C2: two emitted updates are at least 12 seconds apart (whether measured at
\* the request or at the recorded completion), and an update is emitted only
\* when none was emitted before or at least 12 seconds have passed since the
\* last emission was recorded.
C2_DebounceGap ==
    /\ \A i \in 2..Len(updates) :
         /\ updates[i].issued - updates[i - 1].recorded >= 12
         /\ updates[i].issued - updates[i - 1].issued >= 12
         /\ updates[i].recorded - updates[i - 1].recorded >= 12
    /\ pc = "emit" =>
         \/ updates = <<>>
         \/ now - updates[Len(updates)].recorded >= 12

\* the second update came exactly 12 seconds after the first was recorded, and a
\* later changed status was suppressed inside the window
C2_Witness ==
    /\ Len(updates) >= 2
    /\ updates[2].issued - updates[1].recorded = 12
    /\ pc = "sleep"
    /\ status # Some(updates[Len(updates)].status)
    /\ now - updates[Len(updates)].recorded < 12

\* C3: the long-wait notice is sticky: an emitted update carries the notice
\* exactly when a non-done status with wait_time >= 30 was polled at that poll or
\* earlier, and the flag, once set, is never cleared.
C3_StickyNotice ==
    /\ [](\A i \in 1..Len(updates) : updates[i].text.notice = updates[i].long_seen)
    /\ [][show_volunteer_notice => show_volunteer_notice']_vars

\* an update with the notice shows a status whose wait_time is below 30
C3_Witness ==
    \E i \in 1..Len(updates) :
        /\ updates[i].text.notice
        /\ updates[i].status.wait_time < 30
        /\ ~updates[1].text.notice

\* C7: after a poll returned done no further poll is issued, and fetch_results
\* is called (once) only after a poll returned done, never from inside the loop.
C7_DoneTerminal ==
    /\ polls.after_done = 0
    /\ polls.done_seen => pc \notin {"poll", "emit", "sleep"}
    /\ (pc = "fetch" \/ chat.fetches > 0) => polls.done_seen
    /\ chat.fetches <= 1

\* results were fetched after a loop that emitted an update
C7_Witness ==
    /\ chat.fetches = 1
    /\ polls.done_seen
    /\ Len(updates) >= 1
    /\ Len(polls.last2) = 2

\* C8: the first emitted update sends a new message, every later one edits that
\* same message, and at most one progress message is ever created.
C8_SingleProgressMessage ==
    /\ chat.progress_created <= 1
    /\ \A i \in 1..Len(updates) :
         /\ updates[i].kind = IF i = 1 THEN "send" ELSE "edit"
         /\ updates[i].target = updates[1].target
         /\ updates[i].target \in chat.progress_ids
    /\ chat.edits = IF updates = <<>> THEN 0 ELSE Len(updates) - 1

\* three updates: one send, two edits
C8_Witness ==
    /\ Len(updates) = 3
    /\ chat.edits = 2
    /\ chat.progress_created = 1

\* C9: a delete of the progress message is issued exactly when the message was
\* created and the final artifact was delivered, after that delivery; a job
\* that failed has issued no delete.
C9_CleanupOnSuccessOnly ==
    /\ chat.delete_issued # None =>
         /\ chat.final_delivered
         /\ chat.progress_created = 1
         /\ chat.delete_issued[1] \in chat.progress_ids
         /\ pc = "done"
    /\ pc = "done" =>
         /\ chat.final_delivered
         /\ chat.progress_created > 0 => chat.delete_issued # None
    /\ pc \in {"failed", "panicked"} => chat.delete_issued = None
    /\ chat.deleted # {} => chat.delete_issued # None

\* a finished job that had shown progress and has deleted the message
C9_Witness ==
    /\ pc = "done"
    /\ Len(updates) >= 1
    /\ chat.final_delivered
    /\ chat.delete_issued = status_msg
    /\ status_msg # None

----------------------------------------------------------------------------
(* Properties of the retrying call (RetrySpec) *)

HttpFailures(k) ==
    /\ Len(attempts) >= k
    /\ \A i \in 1..k : attempts[i].outcome = "http_error"

\* C4: a call whose first k <= 3 attempts fail with a non-success status is
\* attempted again, and when attempt k+1 succeeds the call returns that response
\* after exactly k+1 attempts and k delays; with k = 0 there is no retry and no
\* delay.
C4_RetryThenSuccess ==
    \A k \in 0..3 :
        /\ (Len(attempts) = k /\ HttpFailures(k)) => rpc \in {"attempt", "delay"}
        /\ (Len(attempts) = k + 1 /\ HttpFailures(k) /\ attempts[k + 1].outcome = "ok") =>
              /\ rpc = "returned"
              /\ rresult = Some([ok |-> TRUE, duration |-> attempts[k + 1].took,
                                 attempt |-> k + 1])
              /\ retry = k + 1
              /\ delays = k

\* three failures, then the fourth attempt succeeded
C4_Witness ==
    /\ rpc = "returned"
    /\ Len(attempts) = 4
    /\ HttpFailures(3)
    /\ attempts[4].outcome = "ok"
    /\ rresult[1].ok

\* C5: a call whose attempts all fail with a non-success status makes exactly 4
\* attempts, each retry at least 2 seconds after the failure before it, never a
\* fifth, and returns the error of the fourth attempt.
C5_RetryExhaustion ==
    /\ Len(attempts) <= 4
    /\ delays <= 3
    /\ \A i \in 2..Len(attempts) :
         attempts[i].at = attempts[i - 1].at + attempts[i - 1].took + 2
    /\ (rpc = "returned" /\ HttpFailures(Len(attempts))) =>
         /\ Len(attempts) = 4
         /\ delays = 3
         /\ rresult = Some([ok |-> FALSE,
                            err |-> [kind |-> "status", code |-> attempts[4].code,
                                     attempt |-> 4]])
    /\ (Len(attempts) = 4 /\ HttpFailures(4)) => rpc = "returned"

\* four failures, the last with another status than the third
C5_Witness ==
    /\ rpc = "returned"
    /\ Len(attempts) = 4
    /\ HttpFailures(4)
    /\ attempts[4].code # attempts[3].code
    /\ ~rresult[1].ok

\* C6: a transport-level error is retried like a non-success status: it is
\* propagated only after 4 attempts.
C6_TransportErrorRetried ==
    (rpc = "returned" /\ attempts[Len(attempts)].outcome = "transport_error") =>
        Len(attempts) = 4

\* the latest attempt of the call
LastAttempt == attempts[Len(attempts)]

\* C22: an attempt is followed by another one only after a non-success status;
\* a body that does not decode ends the call at once with that error; and the
\* duration of a successful call is the time of its last attempt alone, without
\* the failed attempts and the delays before it.
C22_OnlyStatusRetries ==
    /\ \A i \in 1..(Len(attempts) - 1) : attempts[i].outcome = "http_error"
    /\ delays <= Cardinality({i \in 1..Len(attempts) : attempts[i].outcome = "http_error"})
    /\ (attempts # <<>> /\ LastAttempt.outcome # "http_error") =>
          rpc \in {"returned", "panicked"}
    /\ (attempts # <<>> /\ LastAttempt.outcome = "bad_json") =>
          /\ rpc = "returned"
          /\ rresult = Some([ok |-> FALSE,
                             err |-> [kind |-> "decode", code |-> 200,
                                      attempt |-> Len(attempts)]])
    /\ (rresult # None /\ rresult[1].ok) =>
          /\ LastAttempt.outcome = "ok"
          /\ rresult[1].duration = LastAttempt.took
          /\ rresult[1].duration = rclock - LastAttempt.at

\* a call succeeded at its third attempt: its duration is shorter than the
\* time the whole call took
C22_Witness ==
    /\ rpc = "returned"
    /\ Len(attempts) = 3
    /\ rresult[1].ok
    /\ delays = 2
    /\ rresult[1].duration < rclock

----------------------------------------------------------------------------
(* Properties of the rate limiter (RateSpec) *)

RECURSIVE UserLog(_, _)
UserLog(log, u) ==
    IF log = <<>> THEN <<>>
    ELSE IF log[1].user = u THEN <<log[1]>> \o UserLog(Tail(log), u)
    ELSE UserLog(Tail(log), u)

\* the decisions the fixed window prescribes for requests at the instants of
\* `log`, given the start of the current window and the requests counted in it
RECURSIVE WindowDecisions(_, _, _)
WindowDecisions(log, start, n) ==
    IF log = <<>> THEN <<>>
    ELSE IF start = None \/ log[1].at - start[1] >= 300
           THEN <<TRUE>> \o WindowDecisions(Tail(log), Some(log[1].at), 1)
           ELSE <<n + 1 <= 3>> \o WindowDecisions(Tail(log), start, n + 1)

Decisions(log) == [i \in 1..Len(log) |-> log[i].allowed]

\* C10: per user, with N = 3 and W = 300 s: the first 3 requests of a window are
\* allowed, every further request inside that window is denied, and the first
\* request after the window has elapsed starts a new window and is allowed.
C10_FixedWindow ==
    \A u \in Users :
        Decisions(UserLog(rl_log, u)) = WindowDecisions(UserLog(rl_log, u), None, 0)

\* a user was allowed 3 times, denied the 4th inside the window, and allowed
\* again after the window elapsed
C10_Witness ==
    \E u \in Users :
        LET l == UserLog(rl_log, u)
        IN  /\ Len(l) = 5
            /\ Decisions(l) = <<TRUE, TRUE, TRUE, FALSE, TRUE>>
            /\ l[4].at - l[1].at = 299
            /\ l[5].at - l[1].at = 300

----------------------------------------------------------------------------
(* Properties of the rate limiter under concurrent tasks (ConcSpec) *)

\* requests of user u admitted at or after instant t
AdmittedSince(u, t) ==
    Cardinality({i \in 1..Len(rl_log) :
                    rl_log[i].user = u /\ rl_log[i].allowed /\ rl_log[i].at >= t})

\* C11: under any interleaving of concurrent acquires and of jobs that end in
\* success or failure, the decisions for a user are those the fixed window
\* prescribes for that user's own requests, at most 3 requests are admitted in
\* a user's window, and a user's entry changes only by that user's own acquire.
C11_PerUserIndependent ==
    /\ [](\A u \in Users :
            /\ Decisions(UserLog(rl_log, u)) = WindowDecisions(UserLog(rl_log, u), None, 0)
            /\ rl_map[u] # None => AdmittedSince(u, rl_map[u][1].start) <= 3)
    /\ [][\A u \in Users :
            UserLog(rl_log', u) = UserLog(rl_log, u) => rl_map'[u] = rl_map[u]]_vars

\* a user was denied the 4th request of the window after one of the user's jobs
\* failed, while another task is inside an acquire for the other user
C11_Witness ==
    \E u \in Users, p \in Tasks :
        /\ Decisions(UserLog(rl_log, u)) = <<TRUE, TRUE, TRUE, FALSE>>
        /\ rl_jobs = Some([user |-> u, outcome |-> "failed"])
        /\ rl_pending[p] # None
        /\ rl_pending[p][1].phase = "acquiring"
        /\ rl_pending[p][1].user # u

----------------------------------------------------------------------------
(* Properties of the aggregation (AggSpec) *)

\* number of fetched generations of worker w, decoded or not
Contributions(gens, w) ==
    Cardinality({i \in 1..Len(gens) : gens[i].worker_name = w})

\* position at which worker w is first seen in the fetched sequence
FirstSeen(gens, w) ==
    CHOOSE i \in 1..Len(gens) :
        /\ gens[i].worker_name = w
        /\ \A j \in 1..(i - 1) : gens[j].worker_name # w

\* the attribution names every fetched worker exactly once
OrderIsOfWorkers(gens, order) ==
    /\ \A i \in 1..Len(gens) : \E k \in 1..Len(order) : order[k] = gens[i].worker_name
    /\ \A k \in 1..Len(order) : \E i \in 1..Len(gens) : order[k] = gens[i].worker_name
    /\ \A k, l \in 1..Len(order) : k # l => order[k] # order[l]

TruncatedIdentity(name, k) ==
    IF Len(k) <= 64 THEN name = k
    ELSE \E n \in 0..63 : name = Append(SubSeq(k, 1, n), ELLIPSIS)

\* C19: the aggregation renders each worker as its identity truncated to at
\* most 64 characters (unchanged up to 64, else ending with the ellipsis
\* marker), followed by " (count)" exactly when its count exceeds 1, and joins
\* the entries by ", ".
C19_Rendering ==
    agg_pc # "fetched" =>
        /\ agg_pc = "done"
        /\ LET order == agg_out[1].order
               entries == agg_out[1].entries
           IN  /\ Len(entries) = Len(order)
               /\ \A i \in 1..Len(order) :
                      LET v == Contributions(agg_in, order[i])
                          suffix == IF v > 1 THEN <<32, 40>> \o Digits(v) \o <<41>> ELSE <<>>
                      IN  \E n \in 0..Len(order[i]) :
                              LET name == IF n = Len(order[i]) THEN order[i]
                                          ELSE Append(SubSeq(order[i], 1, n), ELLIPSIS)
                              IN  /\ TruncatedIdentity(name, order[i])
                                  /\ Len(name) <= 64
                                  /\ entries[i] = escape_markdown(name \o suffix)
               /\ agg_out[1].attribution = Join(entries)

----------------------------------------------------------------------------
(* Properties of the delivery (Spec) *)

\* positions of the fetched generations whose payload decodes
DecodedPositions(gens) == {i \in 1..Len(gens) : gens[i].decodes}

\* C13: a payload that fails to decode is dropped and does not keep the job from
\* delivering; the composite sent holds exactly the decoded images in encounter
\* order, and each worker's count is the number of its fetched results, the
\* dropped ones included.
C13_PartialResults ==
    /\ [](chat.final # None =>
            LET tiles == chat.final[1].image.tiles
                workers == chat.final[1].workers
            IN  /\ {tiles[k].image : k \in 1..Len(tiles)} = DecodedPositions(results)
                /\ \A k, l \in 1..Len(tiles) : k < l => tiles[k].image < tiles[l].image
                /\ \A i \in 1..Len(results) :
                       /\ results[i].worker_name \in DOMAIN workers
                       /\ workers[results[i].worker_name] =
                              Contributions(results, results[i].worker_name))
    /\ [][(pc = "deliver" /\ pc' = "failed") =>
              error' \in {Some("reply_custom"), Some("wait_for_final")}]_vars

\* a job whose fetched results held a payload that does not decode has
\* delivered its composite and finished
C13_Witness ==
    /\ pc = "done"
    /\ chat.final_delivered
    /\ \E i \in 1..Len(results) : ~results[i].decodes
    /\ Len(chat.final[1].image.tiles) = 2

----------------------------------------------------------------------------
(* Properties of a job against a scripted service (ScriptSpec) *)

\* the statuses the service has answered so far
SeenStatuses == [i \in 1..Len(script[1].seen) |-> script[1].seen[i].status]

\* updates that bear the long-wait notice
NoticeUpdates == {i \in 1..Len(updates) : updates[i].text.notice}

\* C14: when the polls returned [wait 5], [wait 35], [done] and the debounce
\* window had elapsed between the first update and the second poll, exactly one
\* update bears the long-wait notice, it is the second update and shows the
\* second status, and it was emitted before the poll that returned done.
C14_EndToEnd ==
    (/\ script # None
     /\ SeenStatuses = <<StWait5, StWait35, StDone>>
     /\ Len(updates) >= 1
     /\ script[1].seen[2].at - updates[1].recorded >= DEBOUNCE_SECS)
    => /\ NoticeUpdates = {2}
       /\ Len(updates) = 2
       /\ updates[1].status = StWait5
       /\ updates[2].status = StWait35
       /\ updates[2].text = format_status(StWait35, TRUE)
       /\ updates[2].recorded <= script[1].seen[3].at

\* the scripted job ran to its end after a second poll that came 12 s or more
\* after the first update
C14_Witness ==
    /\ script # None
    /\ SeenStatuses = <<StWait5, StWait35, StDone>>
    /\ pc = "done"
    /\ Len(updates) = 2
    /\ script[1].seen[2].at - updates[1].recorded >= DEBOUNCE_SECS

\* the job is inside the poll loop
InLoop(p) == p \in {"poll", "emit", "sleep"}

\* the job ended without a failure: results fetched, final message delivered,
\* progress message deleted if there was one
Completed ==
    /\ pc = "done"
    /\ chat.fetches = 1
    /\ chat.final_delivered
    /\ chat.progress_created > 0 => chat.delete_issued = status_msg /\ status_msg # None

----------------------------------------------------------------------------
(* Properties of the whole job (Spec) *)

\* the prompt is missing, longer than 1024 characters or longer than 8 lines
PromptRejected ==
    \/ prompt = None
    \/ prompt[1].chars > 1024
    \/ prompt[1].lines > 8

\* C15: a job whose prompt is missing or rejected fails in validation: no
\* submit, poll or fetch request is issued, and no progress message is created.
C15_ValidationFirst ==
    PromptRejected =>
        /\ pc \in {"start", "failed"}
        /\ pc = "failed" =>
              error = IF prompt = None THEN Some("MissingArgument")
                      ELSE IF prompt[1].chars > 1024
                             THEN Some("this prompt is too long (>1024).")
                             ELSE Some("this prompt has too many lines (>8).")
        /\ chat.submits = 0
        /\ chat.fetches = 0
        /\ chat.progress_created = 0
        /\ ~chat.final_sent
        /\ status = None
        /\ polls = NoPolls
        /\ updates = <<>>

\* a job with a prompt of 1025 characters has failed without any request
C15_Witness ==
    /\ pc = "failed"
    /\ prompt = Some([chars |-> 1025, lines |-> 1])
    /\ chat = NoChat

\* the status returned by the latest poll
LatestPolled == polls.last2[Len(polls.last2)]

\* C18: an update emitted in an iteration shows the status polled in that
\* iteration, and it is emitted only when that status differs from the status
\* of the update before it; older suppressed statuses are never shown.
C18_MostRecentWins ==
    [][Len(updates') > Len(updates) =>
          LET u == updates'[Len(updates')]
          IN  /\ Len(updates') = Len(updates) + 1
              /\ u.status = LatestPolled.status
              /\ u.text = format_status(LatestPolled.status, show_volunteer_notice)
              /\ LatestPolled.emits
              /\ Len(updates) > 0 => updates[Len(updates)].status # LatestPolled.status]_vars

\* the job finished although the status polled just before done was suppressed
\* and differs from the status of the last update: it was never shown
C18_Witness ==
    /\ pc = "done"
    /\ Len(polls.last2) = 2
    /\ polls.last2[2].status.done
    /\ ~polls.last2[1].emitted
    /\ ~polls.last2[1].emits
    /\ Len(updates) >= 1
    /\ updates[Len(updates)].status # polls.last2[1].status
    /\ \A i \in 1..Len(updates) : updates[i].status # polls.last2[1].status

\* C20: a step that emits no update leaves the last emitted status, the time
\* of the last emission and the handle of the progress message unchanged; a
\* step that emits records the status just shown, the time after the emission
\* and the handle of the message it wrote.
C20_RecordOnlyOnEmission ==
    [][/\ Len(updates') = Len(updates) => UNCHANGED <<last_status, last_edit, status_msg>>
       /\ Len(updates') > Len(updates) =>
             LET u == updates'[Len(updates')]
             IN  /\ last_status' = Some(u.status)
                 /\ u.text = format_status(u.status, show_volunteer_notice)
                 /\ last_edit' = Some(u.recorded)
                 /\ status_msg' = Some(u.target)]_vars

\* an iteration polled a changed status inside the debounce window and went to
\* sleep with the record of the earlier emission still in place
C20_Witness ==
    /\ pc = "sleep"
    /\ Len(updates) = 1
    /\ ~LatestPolled.emits
    /\ status # last_status
    /\ last_status = Some(updates[1].status)
    /\ last_edit = Some(updates[1].recorded)
    /\ status_msg = Some(updates[1].target)
    /\ now - last_edit[1] < DEBOUNCE_SECS

\* this step is a poll that returned a done status
DonePolled ==
    /\ pc = "poll"
    /\ polls' # polls
    /\ polls'.last2[Len(polls'.last2)].status.done

\* C21: the iteration whose poll returns done emits no update, leaves the
\* long-wait flag as it was whatever its wait_time, and leaves the loop at once
\* without a sleep; no update ever shows a done status, and nothing is emitted
\* after it.
C21_DoneNeverShown ==
    [][/\ DonePolled =>
             /\ pc' = "fetch"
             /\ UNCHANGED <<updates, show_volunteer_notice, last_status, last_edit,
                            status_msg, chat>>
       /\ polls.done_seen =>
             /\ UNCHANGED <<updates, show_volunteer_notice, status>>
             /\ pc' \notin {"poll", "emit", "sleep"}
       /\ Len(updates') > Len(updates) => ~updates'[Len(updates')].status.done]_vars

\* a poll returned done with wait_time 35 after a loop in which no wait reached
\* 30: the flag is still unset and the job has finished
C21_Witness ==
    /\ pc = "done"
    /\ status[1].done
    /\ status[1].wait_time >= LONG_WAIT_SECS
    /\ ~show_volunteer_notice
    /\ ~polls.long_seen
    /\ Len(updates) >= 1
    /\ Len(polls.last2) = 2

====
